---- MODULE Spec2Model ----
(***************************************************************************)
(* Model of the editable allocation dashboard (src/xyz.py).                *)
(*                                                                         *)
(* Allocation weights are exact decimals counted in hundredths of a        *)
(* percent ("cents"): 100.00 % is 10000.  The floating-point noise of the  *)
(* source (below 1e-9) is not represented; rounding to two decimals is     *)
(* numpy's round-half-to-even, applied to the exact quotient.              *)
(*                                                                         *)
(* Two specifications share the variables:                                 *)
(*   Spec      the Streamlit session: browser edits, button clicks and the *)
(*             script run they trigger, section by section;                *)
(*   SpecNorm  normalize_allocations applied once and then again to inputs *)
(*             drawn from bounded families.                                *)
(***************************************************************************)
EXTENDS Integers, Sequences, FiniteSets

VARIABLES portfolio, df, widget, shown, clicked, banner, notice, pc,
          edits, w, out, out2, stage

vars == <<portfolio, df, widget, shown, clicked, banner, notice, pc,
          edits, w, out, out2, stage>>

appVars == <<portfolio, df, widget, shown, clicked, banner, notice,
             pc, edits>>

fnVars == <<w, out, out2, stage>>

(***************************************************************************)
(* Bounds of the model.                                                    *)
(***************************************************************************)
\* number of browser edits of a number input in one session
MaxEdits == 2

\* general inputs of SpecNorm: up to MaxLen weights, each in 0..MaxWeight
MaxLen == 3

MaxWeight == 5

\* equal-weight inputs of SpecNorm: up to MaxCount entries
MaxCount == 160

(***************************************************************************)
(* Program constants, in cents.                                            *)
(***************************************************************************)
\* 100.0 of lines 46, 54, 56, 58
HUNDRED == 10000

\* min_value=0.0 of the number inputs
MinValue == 0

\* max_value=100.0 of the number inputs
MaxValue == 10000

\* 1 / tol of is_allocation_ok (tol=1e-6)
TolInv == 1000000

\* cents per percent: the two decimals of round(2)
Scale == 100

(***************************************************************************)
(* Helpers.                                                                *)
(***************************************************************************)
default_portfolio_df == <<3000, 2000, 2000, 2000, 1000>>

NumAssets == Len(default_portfolio_df)

Abs(x) == IF x < 0 THEN -x ELSE x

RECURSIVE SumRange(_, _, _)
SumRange(s, lo, hi) ==
    IF lo > hi THEN 0
    ELSE IF lo = hi THEN s[lo]
    ELSE LET mid == (lo + hi) \div 2
         IN  SumRange(s, lo, mid) + SumRange(s, mid + 1, hi)

\* Series.sum()
SumSeq(s) == SumRange(s, 1, Len(s))

\* pd.to_numeric(df["Allocation (%)"]).fillna(0).sum()
sum_allocations(a) == SumSeq(a)

\* variant: sum - 100.0 <= tol, the abs() left out
is_allocation_ok_missing_abs(a) ==
    (sum_allocations(a) - HUNDRED) * (TolInv \div Scale) <= 1

\* abs(sum - 100.0) <= tol, with tol = 1 / TolInv percent = Scale / TolInv cents
is_allocation_ok(a) ==
    Abs(sum_allocations(a) - HUNDRED) * (TolInv \div Scale) <= 1

\* variant: ties rounded up instead of to even
RoundHalfUp(num, den) ==
    LET q == num \div den
        r == num - q * den
    IN  IF 2 * r >= den THEN q + 1 ELSE q

\* Series.round(2) of the exact quotient num / den (den > 0), in cents:
\* nearest integer, ties to the even one
RoundHalfEven(num, den) ==
    LET q == num \div den
        r == num - q * den
    IN  IF 2 * r < den THEN q
        ELSE IF 2 * r > den THEN q + 1
        ELSE IF q % 2 = 0 THEN q ELSE q + 1

\* rounded = normalized.round(2), lines 50-57
Rounded(vals) ==
    LET total == SumSeq(vals)
        n == Len(vals)
    IN  IF total = 0
        THEN [i \in 1..n |-> RoundHalfEven(HUNDRED, n)]
        ELSE [i \in 1..n |-> RoundHalfEven(vals[i] * HUNDRED, total)]

RECURSIVE MaxRange(_, _, _)
MaxRange(s, lo, hi) ==
    IF lo = hi THEN s[lo]
    ELSE LET mid == (lo + hi) \div 2
             a == MaxRange(s, lo, mid)
             b == MaxRange(s, mid + 1, hi)
         IN  IF a >= b THEN a ELSE b

\* Series.max(), of a non-empty series
MaxOf(s) == MaxRange(s, 1, Len(s))

\* variant: the last position of the maximum
idxmax_last(s) ==
    LET m == MaxOf(s)
    IN  CHOOSE i \in 1..Len(s) :
            s[i] = m /\ \A j \in (i + 1)..Len(s) : s[j] # m

\* Series.idxmax(): the first position of the maximum
idxmax(s) ==
    LET m == MaxOf(s)
    IN  CHOOSE i \in 1..Len(s) : s[i] = m /\ \A j \in 1..(i - 1) : s[j] # m

\* variant: the residue of lines 58-65 is not assigned
normalize_allocations_no_residue(a) == Rounded(a)

\* lines 48-67.  The residue is a whole number of cents, so abs(residue) > 1e-9
\* (line 59) is abs(residue) > 0.
normalize_allocations(a) ==
    LET rounded == Rounded(a)
        residue == HUNDRED - SumSeq(rounded)
    IN  IF Abs(residue) > 0
        THEN LET idx == IF SumSeq(rounded) # 0 THEN idxmax(rounded) ELSE 1
             IN  [rounded EXCEPT ![idx] = @ + residue]
        ELSE rounded

(***************************************************************************)
(* The Streamlit session (Spec).                                           *)
(*                                                                         *)
(*   portfolio  st.session_state.portfolio_df["Allocation (%)"]            *)
(*   df         the script's local copy, lines 79, 131, 144                *)
(*   widget     the values held by the five number inputs                  *)
(*   shown      the value= default each number input was last built with   *)
(*   clicked    the button whose click started the current run             *)
(*   banner     the total-allocation banner of lines 138-141               *)
(*   notice     the last st.success notice of lines 146, 151               *)
(*   pc         the section the script run has reached; "idle" between runs*)
(***************************************************************************)
Assets == 1..NumAssets

Buttons == {"none", "reset", "preset", "normalize", "save"}

Presets == {"none", "default", "ultrasafe", "income"}

\* what a user may type into a number input, in cents
RawInputs == {-500, 500, 12000}

\* variant: no min_value / max_value
number_input_unclamped(raw) == raw

\* min_value=0.0, max_value=100.0 of line 124: the input keeps a typed value
\* inside [min_value, max_value]
number_input(raw) ==
    IF raw < MinValue THEN MinValue
    ELSE IF raw > MaxValue THEN MaxValue ELSE raw

\* lines 93-98: the allocations the chosen preset writes
PresetAllocations(p, current) ==
    CASE p = "default"   -> <<3000, 2000, 2000, 2000, 1000>>
      [] p = "ultrasafe" -> <<4000, 1500, 1000, 2500, 1000>>
      [] p = "income"    -> <<2000, 3000, 1000, 2000, 2000>>
      [] OTHER           -> current

AppInit ==
    /\ portfolio = default_portfolio_df
    /\ df = default_portfolio_df
    /\ widget = default_portfolio_df
    /\ shown = default_portfolio_df
    /\ clicked = "none"
    /\ banner = "success"
    /\ notice = "none"
    /\ pc = "idle"
    /\ edits = 0

\* The user types a value into number input i.  The browser keeps it; the
\* script sees it in the next run that reaches line 124.
EditAllocation(i, raw) ==
    /\ pc = "idle"
    /\ edits < MaxEdits
    /\ widget' = [widget EXCEPT ![i] = number_input(raw)]
    /\ edits' = edits + 1
    /\ UNCHANGED <<portfolio, df, shown, clicked, banner, notice, pc>>
    /\ UNCHANGED fnVars

\* A script run starts (lines 75-79): b is the button clicked, "none" for a
\* run started by a changed input, checkbox or selectbox.
StartRun(b) ==
    /\ pc = "idle"
    /\ clicked' = b
    /\ df' = portfolio
    /\ notice' = "none"
    /\ pc' = "sidebar"
    /\ UNCHANGED <<portfolio, widget, shown, banner, edits>>
    /\ UNCHANGED fnVars

\* st.experimental_rerun(): the run stops and the script starts again with no
\* button clicked (lines 75-79 of the new run)
Rerun(newPortfolio) ==
    /\ portfolio' = newPortfolio
    /\ df' = newPortfolio
    /\ clicked' = "none"
    /\ pc' = "sidebar"

\* lines 85-87
ResetToDefault ==
    /\ pc = "sidebar"
    /\ clicked = "reset"
    /\ Rerun(default_portfolio_df)
    /\ UNCHANGED <<widget, shown, banner, notice, edits>>
    /\ UNCHANGED fnVars

\* lines 91-99: p is the selectbox choice
ApplyPreset(p) ==
    /\ pc = "sidebar"
    /\ clicked = "preset"
    /\ Rerun(PresetAllocations(p, portfolio))
    /\ UNCHANGED <<widget, shown, banner, notice, edits>>
    /\ UNCHANGED fnVars

\* lines 82-102 when neither sidebar button was clicked
SidebarPass ==
    /\ pc = "sidebar"
    /\ clicked \notin {"reset", "preset"}
    /\ pc' = "table"
    /\ UNCHANGED <<portfolio, df, widget, shown, clicked, banner,
                   notice, edits>>
    /\ UNCHANGED fnVars

\* line 124: a number input built with a new value= default shows that
\* default; built with the default it already had, it keeps what it holds.
\* (A default outside [min_value, max_value] would raise; C8_WeightsInRange
\* shows the stored allocations never leave the range.)
InputValue(i, current) == IF current # shown[i] THEN current ELSE widget[i]

\* lines 115-131: new_allocs collects the five inputs and replaces the column
EditableTable ==
    /\ pc = "table"
    /\ LET new_allocs == [i \in Assets |-> InputValue(i, df[i])]
       IN  /\ widget' = new_allocs
           /\ shown' = df
           /\ df' = new_allocs
    /\ pc' = "banner"
    /\ UNCHANGED <<portfolio, clicked, banner, notice, edits>>
    /\ UNCHANGED fnVars

\* lines 136-141
TotalBanner ==
    /\ pc = "banner"
    /\ banner' = IF is_allocation_ok(df) THEN "success" ELSE "error"
    /\ pc' = "actions"
    /\ UNCHANGED <<portfolio, df, widget, shown, clicked, notice,
                   edits>>
    /\ UNCHANGED fnVars

\* variant: the stored allocations are normalized, not the entered ones
NormalizeTarget_stored == normalize_allocations(portfolio)

\* line 144: df = normalize_allocations(df)
NormalizeTarget == normalize_allocations(df)

\* lines 143-147
NormalizeButton ==
    /\ pc = "actions"
    /\ clicked = "normalize"
    /\ Rerun(NormalizeTarget)
    /\ notice' = "normalized"
    /\ UNCHANGED <<widget, shown, banner, edits>>
    /\ UNCHANGED fnVars

\* lines 149-151
SaveButton ==
    /\ pc = "actions"
    /\ clicked = "save"
    /\ portfolio' = df
    /\ notice' = "saved"
    /\ pc' = "persist"
    /\ UNCHANGED <<df, widget, shown, clicked, banner, edits>>
    /\ UNCHANGED fnVars

\* lines 142-151 when neither action button was clicked
ActionsPass ==
    /\ pc = "actions"
    /\ clicked \notin {"normalize", "save"}
    /\ pc' = "persist"
    /\ UNCHANGED <<portfolio, df, widget, shown, clicked, banner,
                   notice, edits>>
    /\ UNCHANGED fnVars

\* variant: the view is stored only when Save changes was clicked
PersistedView_saved_only == IF clicked = "save" THEN df ELSE portfolio

\* variant: the view is normalized before it is stored
PersistedView_normalized == normalize_allocations(df)

\* line 154: st.session_state.portfolio_df = df.copy()
PersistedView == df

\* line 154 to the end of the script
PersistCurrentView ==
    /\ pc = "persist"
    /\ portfolio' = PersistedView
    /\ pc' = "idle"
    /\ UNCHANGED <<df, widget, shown, clicked, banner, notice, edits>>
    /\ UNCHANGED fnVars

(***************************************************************************)
(* normalize_allocations on its own (SpecNorm).                            *)
(*                                                                         *)
(*   w      the weights given                                              *)
(*   out    normalize_allocations(w)                                       *)
(*   out2   normalize_allocations(out)                                     *)
(*   stage  "input", "once", "twice"                                       *)
(***************************************************************************)
\* up to MaxLen weights, each in 0..MaxWeight
GeneralInputs ==
    UNION {[1..n -> 0..MaxWeight] : n \in 1..MaxLen}

\* n equal weights, all 0 or all 1
EqualInputs ==
    {[i \in 1..n |-> c] : n \in 1..MaxCount, c \in {0, 1}}

\* five allocations in whole tens of percent, and the presets
DashboardInputs ==
    [Assets -> {0, 1000, 2000, 3000, 4000}]
        \cup {PresetAllocations(p, default_portfolio_df) : p \in Presets}

FnInit ==
    /\ w \in GeneralInputs \cup EqualInputs \cup DashboardInputs
    /\ out = <<>>
    /\ out2 = <<>>
    /\ stage = "input"

NormalizeOnce ==
    /\ stage = "input"
    /\ out' = normalize_allocations(w)
    /\ stage' = "once"
    /\ UNCHANGED <<w, out2>>
    /\ UNCHANGED appVars

NormalizeTwice ==
    /\ stage = "once"
    /\ out2' = normalize_allocations(out)
    /\ stage' = "twice"
    /\ UNCHANGED <<w, out>>
    /\ UNCHANGED appVars

(***************************************************************************)
(* Specifications.                                                         *)
(***************************************************************************)
FnIdle ==
    /\ w = <<>>
    /\ out = <<>>
    /\ out2 = <<>>
    /\ stage = "input"

Init == AppInit /\ FnIdle

Next ==
    \/ \E i \in Assets, raw \in RawInputs : EditAllocation(i, raw)
    \/ \E b \in Buttons : StartRun(b)
    \/ ResetToDefault
    \/ \E p \in Presets : ApplyPreset(p)
    \/ SidebarPass
    \/ EditableTable
    \/ TotalBanner
    \/ NormalizeButton
    \/ SaveButton
    \/ ActionsPass
    \/ PersistCurrentView

Spec == Init /\ [][Next]_vars

InitNorm == AppInit /\ FnInit

NextNorm == NormalizeOnce \/ NormalizeTwice

SpecNorm == InitNorm /\ [][NextNorm]_vars

(***************************************************************************)
(* Properties.                                                             *)
(***************************************************************************)
\* r is num / den (den > 0) rounded to the nearest integer, ties to even
IsRounded(r, num, den) ==
    /\ 2 * Abs(r * den - num) <= den
    /\ 2 * Abs(r * den - num) = den => r % 2 = 0

Called == stage # "input"

\* C1: for every non-empty sequence of non-negative weights,
\* normalize_allocations returns as many values as it was given and they sum
\* to exactly 100.00, zero input sum or not, residue or not.
C1_SumIsHundred ==
    Called => Len(out) = Len(w) /\ SumRange(out, 1, Len(w)) = 100 * Scale

\* C1 witness: a non-zero input whose rounded shares do not sum to 100.00, so
\* a residue was assigned
C1_Witness ==
    /\ stage = "once"
    /\ SumSeq(w) # 0
    /\ SumSeq(Rounded(w)) # HUNDRED
    /\ SumSeq(out) = HUNDRED

\* C2: every value normalize_allocations returns for non-negative weights is
\* non-negative, the entry that takes a negative residue included.
C2_NonNegative ==
    Called => \A i \in 1..Len(out) : out[i] >= 0

\* C3 as stated: when the input sum is zero every output value equals
\* 100 / count, for every count.
C3_EqualShare ==
    (Called /\ SumSeq(w) = 0) =>
        \A i \in 1..Len(out) : out[i] * Len(w) = 100 * Scale

\* C3 amended: when the input sum is zero every entry after the first is
\* 100 / count rounded to two decimals (ties to even), the first entry is
\* 100.00 minus the others, and all entries equal 100 / count when that has
\* at most two decimals.
C3_RoundedShare ==
    (Called /\ SumSeq(w) = 0) =>
        LET n == Len(w)
        IN  /\ Len(out) = n
            /\ \A i \in 2..n : IsRounded(out[i], 100 * Scale, n)
            /\ \E s \in {(100 * Scale) \div n, (100 * Scale) \div n + 1} :
                   /\ IsRounded(s, 100 * Scale, n)
                   /\ out[1] = 100 * Scale - (n - 1) * s
            /\ (100 * Scale) % n = 0 =>
                   \A i \in 1..n : out[i] * n = 100 * Scale

\* C3 witness: three zero weights give 33.34, 33.33, 33.33
C3_Witness ==
    /\ stage = "once"
    /\ w = <<0, 0, 0>>
    /\ out = <<3334, 3333, 3333>>

\* C4: when the input sum is not zero, the output is round(weight / sum * 100,
\* 2) in every position but at most one; that position k is the first
\* occurrence of the largest rounded value and takes the whole residue.
C4_ResidueToFirstLargest ==
    (Called /\ SumSeq(w) # 0) =>
        LET n == Len(w)
            total == SumRange(w, 1, n)
        IN  \E k \in 1..n :
              \E rk \in {(w[k] * 100 * Scale) \div total,
                         (w[k] * 100 * Scale) \div total + 1} :
                /\ IsRounded(rk, w[k] * 100 * Scale, total)
                /\ \A i \in 1..n \ {k} :
                       IsRounded(out[i], w[i] * 100 * Scale, total)
                /\ \A j \in 1..(k - 1) : out[j] < rk
                /\ \A j \in (k + 1)..n : out[j] <= rk
                /\ out[k] = rk + (100 * Scale
                                  - (rk + SumRange(out, 1, n) - out[k]))

\* C4 witness: three equal weights; the first takes the residue of 0.01
C4_Witness ==
    /\ stage = "once"
    /\ w = <<1, 1, 1>>
    /\ out = <<3334, 3333, 3333>>

\* C5: an allocation with two decimals that sums to 100 is returned
\* unchanged, and normalize(normalize(w)) = normalize(w) entry by entry.
C5_Idempotent ==
    /\ (Called /\ SumSeq(w) = 100 * Scale) => out = w
    /\ stage = "twice" => out2 = out

\* C5 witness: the second pass over an output that took a residue
C5_Witness ==
    /\ stage = "twice"
    /\ out # Rounded(w)
    /\ out2 = out

\* C6: is_allocation_ok is true exactly when the sum is within 1e-6 of 100,
\* and the call changes neither the weights it reads nor the session
\* portfolio.
C6_ValidityCheck ==
    [][pc = "banner" =>
        /\ (banner' = "success") <=>
               (Abs(SumSeq(df) - 100 * Scale) * (TolInv \div Scale) <= 1)
        /\ df' = df
        /\ portfolio' = portfolio]_vars

\* C6 witness: 30, 20, 20, 20, 5 was checked and reported as not 100%
C6_Witness ==
    /\ pc = "actions"
    /\ df = <<3000, 2000, 2000, 2000, 500>>
    /\ banner = "error"

C8_WeightsInRange ==
    \A i \in Assets : portfolio[i] >= 0 /\ portfolio[i] <= 100 * Scale

\* C8 witness: inputs typed below 0 and above 100, then normalized
C8_Witness ==
    /\ pc = "idle"
    /\ notice = "normalized"
    /\ edits >= 2
    /\ \E i \in Assets : portfolio[i] = 0
    /\ \E i \in Assets : portfolio[i] > 5000

====
